---- MODULE Spec2Model ----
(***************************************************************************)
(* Huffman coding pipeline of src/Huffman.py (byte-range alphabet, dict    *)
(* tables, table-based decoder) and src/Greedy_Alg.py (27-symbol alphabet, *)
(* list table, tree-walk decoder).                                         *)
(*                                                                         *)
(* A Python str is a sequence of one-character strings; a Node object is a *)
(* record stored in `heap` and referred to by its position there; a dict   *)
(* is the sequence of its <<key, value>> items in insertion order; the     *)
(* result of a call is a record [status, value], status "ok" for a normal  *)
(* return and the exception's name when the call raises.                   *)
(***************************************************************************)
EXTENDS Integers, Sequences, FiniteSets, TLC

\* ----- bounds of the model -----
MaxLen == 4
MaxBits == 4
MaxFreq == 3

\* ----- program constants -----
ASCII_SYMBOLS == 256
TABLE_SIZE == 27
SPACE_INDEX == 26

\* Python's None as a symbol, and as a reference to a Node.
None == "None"
NoneNode == 0

Letters ==
  << "A", "B", "C", "D", "E", "F", "G", "H", "I", "J", "K", "L", "M",
     "N", "O", "P", "Q", "R", "S", "T", "U", "V", "W", "X", "Y", "Z" >>

\* ord() and chr() on the filtered alphabet (uppercase letters and space).
ord(char) ==
  IF char = " " THEN 32 ELSE 64 + (CHOOSE i \in 1..26 : Letters[i] = char)

chr(i) == IF i = 32 THEN " " ELSE Letters[i - 64]

\* ----- the messages and bitstrings the callers supply -----
MessageAlphabet == {"A", "B", " "}
BuildAlphabet == {"A", "B", "C", "D", " "}
HELLO_WORLD == << "H", "E", "L", "L", "O", " ", "W", "O", "R", "L", "D" >>

SeqsUpTo(S, n) == UNION {[1..k -> S] : k \in 0..n}

Messages == SeqsUpTo(MessageAlphabet, MaxLen) \cup {HELLO_WORLD}
BitStrings == SeqsUpTo({"0", "1"}, MaxBits)

VARIABLES
  impl,           \* which file's pipeline runs: "Huffman" or "Greedy"
  pc,             \* the next step of the pipeline
  message,        \* the filtered message
  frequencies,    \* list of counts, 0-based index
  heap,           \* the Node objects created so far
  forest,         \* list of references to the not yet merged subtrees
  merges,         \* iterations of the build loop executed so far
  root,           \* the reference huffman / build_huffman_tree returned
  table,          \* result of build_encoding_table
  encoded,        \* result of the encoder
  reverse_table,  \* result of build_reverse_table
  bits,           \* the bitstring handed to the decoder
  decoded,        \* result of the file's own decoder on bits
  walked          \* result of the tree-walk decoder on the same tree and bits

vars ==
  << impl, pc, message, frequencies, heap, forest, merges, root, table,
     encoded, reverse_table, bits, decoded, walked >>

\* ----- results of calls -----
Ok(v) == [status |-> "ok", value |-> v]
Raised(e) == [status |-> e, value |-> <<>>]
NotRun == [status |-> "not run", value |-> <<>>]

\* ----- class Node -----
\* Huffman.py defines the class; Greedy_Alg.py imports it from module Node
\* and uses the same constructor, setters, getters and `<`.
Node(frequency, symbol) ==
  [frequency |-> frequency, symbol |-> symbol,
   left |-> NoneNode, right |-> NoneNode]

set_left(node, child) == [node EXCEPT !.left = child]
set_right(node, child) == [node EXCEPT !.right = child]

\* Faulty comparisons: `<=` takes the last of equal nodes, `>` the largest.
Node_lt_le(self, other) == self.frequency <= other.frequency
Node_lt_gt(self, other) == self.frequency > other.frequency

Node_lt(self, other) == self.frequency < other.frequency

\* ----- lists -----
\* 0-based read and increment of a Python list held as a 1-based sequence.
At(list, i) == list[i + 1]
Incr(list, i) == [list EXCEPT ![i + 1] = @ + 1]
Zeros(n) == [i \in 1..n |-> 0]
Pop(list, i) == SubSeq(list, 1, i - 1) \o SubSeq(list, i + 1, Len(list))

\* ----- counting -----
RECURSIVE frequency_loop(_, _, _)
frequency_loop(msg, k, freqs) ==
  IF k > Len(msg) THEN freqs
  ELSE frequency_loop(msg, k + 1, Incr(freqs, ord(msg[k])))

frequency_of_symbols(msg) == frequency_loop(msg, 1, Zeros(ASCII_SYMBOLS))

RECURSIVE count_loop(_, _, _)
count_loop(input_string, k, freqs) ==
  IF k > Len(input_string) THEN freqs
  ELSE count_loop(input_string, k + 1,
         IF input_string[k] = " " THEN Incr(freqs, SPACE_INDEX)
         ELSE Incr(freqs, ord(input_string[k]) - ord("A")))

count_frequencies(input_string) == count_loop(input_string, 1, Zeros(TABLE_SIZE))

\* ----- the initial forest -----
\* Both return the heap with the new leaves and the list of their references.
\* The loops visit the indices in ascending order; an index whose count fails
\* the test adds nothing, so each step goes to the next index that passes it.
\* Faulty test: a symbol counted once gets no leaf.
create_forest_keeps_gt1(freq) == freq > 1

create_forest_keeps(freq) == freq > 0

NextKept(freqs, from) ==
  LET kept == {i \in from..(Len(freqs) - 1) : create_forest_keeps(At(freqs, i))}
  IN  IF kept = {} THEN Len(freqs)
      ELSE CHOOSE i \in kept : \A j \in kept : i <= j

RECURSIVE create_forest_loop(_, _, _, _)
create_forest_loop(freqs, from, h, f) ==
  LET ascii_val == NextKept(freqs, from)
  IN  IF ascii_val >= Len(freqs) THEN [heap |-> h, forest |-> f]
      ELSE create_forest_loop(freqs, ascii_val + 1,
             Append(h, Node(At(freqs, ascii_val), chr(ascii_val))),
             Append(f, Len(h) + 1))

create_forest(freqs) == create_forest_loop(freqs, 0, <<>>, <<>>)

RECURSIVE initialize_forest_loop(_, _, _, _)
initialize_forest_loop(freqs, from, h, f) ==
  LET i == NextKept(freqs, from)
  IN  IF i >= Len(freqs) THEN [heap |-> h, forest |-> f]
      ELSE initialize_forest_loop(freqs, i + 1,
             Append(h, Node(At(freqs, i),
                            IF i = SPACE_INDEX THEN " " ELSE chr(i + ord("A")))),
             Append(f, Len(h) + 1))

initialize_forest(freqs) == initialize_forest_loop(freqs, 0, <<>>, <<>>)

\* ----- get_smallest: scan for the first strictly smaller node, pop it -----
RECURSIVE smallest_scan(_, _, _, _)
smallest_scan(h, f, i, smallest_index) ==
  IF i > Len(f) THEN smallest_index
  ELSE smallest_scan(h, f, i + 1,
         IF Node_lt(h[f[i]], h[f[smallest_index]]) THEN i ELSE smallest_index)

get_smallest(h, f) ==
  LET smallest_index == smallest_scan(h, f, 2, 1)
  IN  [node |-> f[smallest_index], forest |-> Pop(f, smallest_index)]

\* ----- one iteration of the build loop -----
\* Faulty merge: the new node takes the frequency of s1 alone.
new_node_s1_only(h, s1, s2) ==
  set_right(set_left(Node(h[s1].frequency, None), s1), s2)

new_node(h, s1, s2) ==
  set_right(set_left(Node(h[s1].frequency + h[s2].frequency, None), s1), s2)

merge(h, f) ==
  LET g1 == get_smallest(h, f)
      g2 == get_smallest(h, g1.forest)
  IN  [heap |-> Append(h, new_node(h, g1.node, g2.node)),
       forest |-> Append(g2.forest, Len(h) + 1)]

\* ----- dict: the sequence of its <<key, value>> items, keys unique -----
DictHas(d, k) == \E i \in 1..Len(d) : d[i][1] = k
DictGet(d, k) == d[CHOOSE i \in 1..Len(d) : d[i][1] = k][2]
DictSet(d, k, v) ==
  IF DictHas(d, k)
  THEN [i \in 1..Len(d) |-> IF d[i][1] = k THEN <<k, v>> ELSE d[i]]
  ELSE Append(d, <<k, v>>)

\* "".join(list of str)
RECURSIVE join(_)
join(list) == IF list = <<>> THEN <<>> ELSE Head(list) \o join(Tail(list))

\* ----- the encoding table -----
\* Faulty edge label: the right edge appends "0" like the left one.
extend_right_zero(code) == Append(code, "0")

extend_left(code) == Append(code, "0")
extend_right(code) == Append(code, "1")

RECURSIVE traverse(_, _, _, _)
traverse(h, node, current_code, tbl) ==
  IF node = NoneNode THEN tbl
  ELSE IF h[node].symbol # None THEN DictSet(tbl, h[node].symbol, current_code)
  ELSE traverse(h, h[node].right, extend_right(current_code),
         traverse(h, h[node].left, extend_left(current_code), tbl))

\* Faulty deriver: traverse without its `node is None` test dereferences None.
build_encoding_table_unguarded(h, tree_root) ==
  IF tree_root = NoneNode THEN Raised("AttributeError")
  ELSE Ok(traverse(h, tree_root, <<>>, <<>>))

build_encoding_table(h, tree_root) == Ok(traverse(h, tree_root, <<>>, <<>>))

RECURSIVE greedy_traverse(_, _, _, _)
greedy_traverse(h, node, code, tbl) ==
  IF node = NoneNode THEN tbl
  ELSE IF h[node].symbol # None
       THEN LET symbol == h[node].symbol
                index == IF symbol = " " THEN SPACE_INDEX
                         ELSE ord(symbol) - ord("A")
            IN  [tbl EXCEPT ![index + 1] = code]
  ELSE greedy_traverse(h, h[node].right, extend_right(code),
         greedy_traverse(h, h[node].left, extend_left(code), tbl))

greedy_build_encoding_table(h, huffman_tree_root) ==
  Ok(greedy_traverse(h, huffman_tree_root, <<>>,
                     [i \in 1..TABLE_SIZE |-> <<>>]))

\* ----- the encoders -----
RECURSIVE encode_with_table_loop(_, _, _, _)
encode_with_table_loop(msg, k, tbl, parts) ==
  IF k > Len(msg) THEN Ok(join(parts))
  ELSE IF ~DictHas(tbl, msg[k]) THEN Raised("KeyError")
  ELSE encode_with_table_loop(msg, k + 1, tbl,
         Append(parts, DictGet(tbl, msg[k])))

encode_with_table(msg, tbl) == encode_with_table_loop(msg, 1, tbl, <<>>)

\* Greedy_Alg.encode subscripts the function build_encoding_table, not the
\* list encoding_table, for every character other than the space.
RECURSIVE encode_loop(_, _, _, _)
encode_loop(input_string, k, encoding_table, parts) ==
  IF k > Len(input_string) THEN Ok(join(parts))
  ELSE IF input_string[k] = " "
       THEN encode_loop(input_string, k + 1, encoding_table,
              Append(parts, At(encoding_table, SPACE_INDEX)))
  ELSE Raised("TypeError")

encode(input_string, encoding_table) ==
  encode_loop(input_string, 1, encoding_table, <<>>)

\* ----- the table-based decoder -----
RECURSIVE build_reverse_table_loop(_, _, _)
build_reverse_table_loop(tbl, i, rev) ==
  IF i > Len(tbl) THEN rev
  ELSE build_reverse_table_loop(tbl, i + 1, DictSet(rev, tbl[i][2], tbl[i][1]))

build_reverse_table(tbl) == build_reverse_table_loop(tbl, 1, <<>>)

\* The loop of decode_with_table: the symbols decoded and the pending bits
\* after the whole input was consumed.
RECURSIVE decode_with_table_loop(_, _, _, _, _)
decode_with_table_loop(encoded_message, k, rev, out, current_bits) ==
  IF k > Len(encoded_message) THEN [decoded |-> out, current_bits |-> current_bits]
  ELSE LET cb == Append(current_bits, encoded_message[k])
       IN  IF DictHas(rev, cb)
           THEN decode_with_table_loop(encoded_message, k + 1, rev,
                  Append(out, DictGet(rev, cb)), <<>>)
           ELSE decode_with_table_loop(encoded_message, k + 1, rev, out, cb)

\* Faulty decoder: current_bits is not reset after a match.
RECURSIVE decode_with_table_noreset_loop(_, _, _, _, _)
decode_with_table_noreset_loop(encoded_message, k, rev, out, current_bits) ==
  IF k > Len(encoded_message) THEN out
  ELSE LET cb == Append(current_bits, encoded_message[k])
       IN  decode_with_table_noreset_loop(encoded_message, k + 1, rev,
             IF DictHas(rev, cb) THEN Append(out, DictGet(rev, cb)) ELSE out, cb)

decode_with_table_noreset(encoded_message, rev) ==
  Ok(decode_with_table_noreset_loop(encoded_message, 1, rev, <<>>, <<>>))

decode_with_table(encoded_message, rev) ==
  Ok(decode_with_table_loop(encoded_message, 1, rev, <<>>, <<>>).decoded)

\* ----- the tree-walk decoder -----
\* decoded collects the bound method current.get_symbol, never its result,
\* and "".join raises TypeError on a list that holds one.
BoundMethod(node) == [method |-> "get_symbol", self |-> node]

RECURSIVE decode_loop(_, _, _, _, _, _)
decode_loop(h, encoded_string, k, huffman_root, current, out) ==
  IF k > Len(encoded_string)
  THEN IF out = <<>> THEN Ok(<<>>) ELSE Raised("TypeError")
  ELSE IF current = NoneNode THEN Raised("AttributeError")
  ELSE LET bit == encoded_string[k]
           next == IF bit = "0" THEN h[current].left
                   ELSE IF bit = "1" THEN h[current].right
                   ELSE current
       IN  IF next = NoneNode THEN Raised("AttributeError")
           ELSE IF h[next].symbol # None
                THEN decode_loop(h, encoded_string, k + 1, huffman_root,
                       huffman_root, Append(out, BoundMethod(next)))
           ELSE decode_loop(h, encoded_string, k + 1, huffman_root, next, out)

decode(h, encoded_string, huffman_root) ==
  decode_loop(h, encoded_string, 1, huffman_root, huffman_root, <<>>)

\* ----- the state machine -----
InitFrom(i, p, m, f) ==
  /\ impl = i /\ pc = p /\ message = m /\ frequencies = f
  /\ heap = <<>> /\ forest = <<>> /\ merges = 0 /\ root = NoneNode
  /\ table = NotRun /\ encoded = NotRun /\ reverse_table = <<>>
  /\ bits = <<>> /\ decoded = NotRun /\ walked = NotRun

\* The pipeline of __main__, started on an already filtered message.
Init ==
  \E i \in {"Huffman", "Greedy"}, m \in Messages : InitFrom(i, "count", m, <<>>)

FrequencyOfSymbols ==
  /\ pc = "count" /\ impl = "Huffman"
  /\ frequencies' = frequency_of_symbols(message)
  /\ pc' = "forest"
  /\ UNCHANGED << impl, message, heap, forest, merges, root, table, encoded,
                  reverse_table, bits, decoded, walked >>

CountFrequencies ==
  /\ pc = "count" /\ impl = "Greedy"
  /\ frequencies' = count_frequencies(message)
  /\ pc' = "forest"
  /\ UNCHANGED << impl, message, heap, forest, merges, root, table, encoded,
                  reverse_table, bits, decoded, walked >>

CreateForest ==
  /\ pc = "forest" /\ impl = "Huffman"
  /\ LET r == create_forest(frequencies)
     IN  heap' = r.heap /\ forest' = r.forest
  /\ pc' = "build"
  /\ UNCHANGED << impl, message, frequencies, merges, root, table, encoded,
                  reverse_table, bits, decoded, walked >>

InitializeForest ==
  /\ pc = "forest" /\ impl = "Greedy"
  /\ LET r == initialize_forest(frequencies)
     IN  heap' = r.heap /\ forest' = r.forest
  /\ pc' = "build"
  /\ UNCHANGED << impl, message, frequencies, merges, root, table, encoded,
                  reverse_table, bits, decoded, walked >>

\* One iteration of `while len(forest) > 1`.
MergeStep ==
  /\ pc = "build" /\ Len(forest) > 1
  /\ LET r == merge(heap, forest)
     IN  heap' = r.heap /\ forest' = r.forest
  /\ merges' = merges + 1
  /\ UNCHANGED << impl, pc, message, frequencies, root, table, encoded,
                  reverse_table, bits, decoded, walked >>

\* `return None` for the empty forest, `return forest[0]` after the loop.
HuffmanReturn ==
  /\ pc = "build" /\ Len(forest) <= 1
  /\ root' = IF Len(forest) = 0 THEN NoneNode ELSE forest[1]
  /\ pc' = "table"
  /\ UNCHANGED << impl, message, frequencies, heap, forest, merges, table,
                  encoded, reverse_table, bits, decoded, walked >>

BuildEncodingTable ==
  /\ pc = "table" /\ impl = "Huffman"
  /\ table' = build_encoding_table(heap, root)
  /\ pc' = "encode"
  /\ UNCHANGED << impl, message, frequencies, heap, forest, merges, root,
                  encoded, reverse_table, bits, decoded, walked >>

GreedyBuildEncodingTable ==
  /\ pc = "table" /\ impl = "Greedy"
  /\ table' = greedy_build_encoding_table(heap, root)
  /\ pc' = "encode"
  /\ UNCHANGED << impl, message, frequencies, heap, forest, merges, root,
                  encoded, reverse_table, bits, decoded, walked >>

EncodeWithTable ==
  /\ pc = "encode" /\ impl = "Huffman"
  /\ encoded' = encode_with_table(message, table.value)
  /\ pc' = "reverse"
  /\ UNCHANGED << impl, message, frequencies, heap, forest, merges, root,
                  table, reverse_table, bits, decoded, walked >>

Encode ==
  /\ pc = "encode" /\ impl = "Greedy"
  /\ encoded' = encode(message, table.value)
  /\ pc' = "decode"
  /\ UNCHANGED << impl, message, frequencies, heap, forest, merges, root,
                  table, reverse_table, bits, decoded, walked >>

BuildReverseTable ==
  /\ pc = "reverse"
  /\ reverse_table' = build_reverse_table(table.value)
  /\ pc' = "decode"
  /\ UNCHANGED << impl, message, frequencies, heap, forest, merges, root,
                  table, encoded, bits, decoded, walked >>

\* What a caller hands to the decoder: the encoder's output, that output
\* with its trailing bit removed, or any short bitstring.
Front(s) == SubSeq(s, 1, Len(s) - 1)

DecoderInputs ==
  BitStrings \cup
    (IF encoded.status = "ok"
     THEN {encoded.value} \cup
          (IF encoded.value = <<>> THEN {} ELSE {Front(encoded.value)})
     ELSE {})

DecodeWithTable ==
  /\ pc = "decode" /\ impl = "Huffman"
  /\ \E b \in DecoderInputs :
       /\ bits' = b
       /\ decoded' = decode_with_table(b, reverse_table)
  /\ pc' = "walk"
  /\ UNCHANGED << impl, message, frequencies, heap, forest, merges, root,
                  table, encoded, reverse_table, walked >>

\* Greedy_Alg.decode on the bitstring and tree the table decoder was given.
DecodeWalk ==
  /\ pc = "walk"
  /\ walked' = decode(heap, bits, root)
  /\ pc' = "done"
  /\ UNCHANGED << impl, message, frequencies, heap, forest, merges, root,
                  table, encoded, reverse_table, bits, decoded >>

Decode ==
  /\ pc = "decode" /\ impl = "Greedy"
  /\ \E b \in DecoderInputs :
       /\ bits' = b
       /\ decoded' = decode(heap, b, root)
       /\ walked' = decoded'
  /\ pc' = "done"
  /\ UNCHANGED << impl, message, frequencies, heap, forest, merges, root,
                  table, encoded, reverse_table >>

Next ==
  \/ FrequencyOfSymbols \/ CountFrequencies
  \/ CreateForest \/ InitializeForest
  \/ MergeStep \/ HuffmanReturn
  \/ BuildEncodingTable \/ GreedyBuildEncodingTable
  \/ EncodeWithTable \/ Encode
  \/ BuildReverseTable
  \/ DecodeWithTable \/ DecodeWalk \/ Decode

Spec == Init /\ [][Next]_vars

\* The counter, the builder and the table deriver on the messages that realise
\* every frequency map over BuildAlphabet with counts up to MaxFreq.
RECURSIVE Repeat(_, _)
Repeat(c, n) == IF n = 0 THEN <<>> ELSE <<c>> \o Repeat(c, n - 1)

BuildMessages ==
  {Repeat("A", f["A"]) \o Repeat("B", f["B"]) \o Repeat("C", f["C"])
     \o Repeat("D", f["D"]) \o Repeat(" ", f[" "]) :
     f \in [BuildAlphabet -> 0..MaxFreq]}

InitBuild ==
  \E i \in {"Huffman", "Greedy"}, m \in BuildMessages :
    InitFrom(i, "count", m, <<>>)

NextBuild ==
  \/ FrequencyOfSymbols \/ CountFrequencies
  \/ CreateForest \/ InitializeForest
  \/ MergeStep \/ HuffmanReturn
  \/ BuildEncodingTable \/ GreedyBuildEncodingTable

SpecBuild == InitBuild /\ [][NextBuild]_vars

\* ----- what the properties speak about -----
Built == pc \in {"table", "encode", "reverse", "decode", "walk", "done"}
Tabled == pc \in {"encode", "reverse", "decode", "walk", "done"}

\* The symbol a position of the frequency list counts.
SymbolAt(i) ==
  IF impl = "Huffman" THEN chr(i - 1)
  ELSE IF i - 1 = SPACE_INDEX THEN " " ELSE chr(i - 1 + 65)

Counted == {i \in 1..Len(frequencies) : frequencies[i] > 0}
CountedSymbols == {SymbolAt(i) : i \in Counted}
N == Cardinality(Counted)
CountOf(symbol) == frequencies[CHOOSE i \in Counted : SymbolAt(i) = symbol]

\* The sum of the counts at a set of positions of the frequency list.
RECURSIVE SumAt(_)
SumAt(S) ==
  IF S = {} THEN 0
  ELSE LET i == CHOOSE i \in S : TRUE IN frequencies[i] + SumAt(S \ {i})

Elems(list) == {list[i] : i \in 1..Len(list)}
IsLeaf(n) == heap[n].symbol # None

\* Leaves and internal nodes below n, counted along every path (a node
\* reachable twice counts twice).
RECURSIVE LeafCount(_)
LeafCount(n) ==
  IF n = NoneNode THEN 0
  ELSE IF IsLeaf(n) THEN 1
  ELSE LeafCount(heap[n].left) + LeafCount(heap[n].right)

RECURSIVE InternalCount(_)
InternalCount(n) ==
  IF n = NoneNode \/ IsLeaf(n) THEN 0
  ELSE 1 + InternalCount(heap[n].left) + InternalCount(heap[n].right)

RECURSIVE NodesBelow(_)
NodesBelow(n) ==
  IF n = NoneNode THEN {}
  ELSE IF IsLeaf(n) THEN {n}
  ELSE {n} \cup NodesBelow(heap[n].left) \cup NodesBelow(heap[n].right)

RECURSIVE LeafFrequencySum(_)
LeafFrequencySum(n) ==
  IF n = NoneNode THEN 0
  ELSE IF IsLeaf(n) THEN heap[n].frequency
  ELSE LeafFrequencySum(heap[n].left) + LeafFrequencySum(heap[n].right)

\* The code the table of the running file holds for a symbol.
HasCode(symbol) ==
  IF impl = "Huffman" THEN DictHas(table.value, symbol) ELSE TRUE
CodeOf(symbol) ==
  IF impl = "Huffman" THEN DictGet(table.value, symbol)
  ELSE IF symbol = " " THEN table.value[SPACE_INDEX + 1]
  ELSE table.value[ord(symbol) - 65 + 1]

IsPrefix(a, b) == Len(a) <= Len(b) /\ SubSeq(b, 1, Len(a)) = a

\* C2: with at least two counted symbols, every counted symbol has a
\* non-empty code in the table and no symbol's code is a prefix of another
\* symbol's code.
C2_PrefixFree ==
  (Tabled /\ N >= 2) =>
    /\ table.status = "ok"
    /\ \A a \in CountedSymbols : HasCode(a) /\ CodeOf(a) # <<>>
    /\ \A a, b \in CountedSymbols :
         a # b => ~IsPrefix(CodeOf(a), CodeOf(b))

C2_Witness ==
  /\ Tabled /\ N = 4
  /\ \E a, b \in CountedSymbols : Len(CodeOf(a)) < Len(CodeOf(b))

\* C3: the tree the builder returns has one leaf per counted symbol, each
\* symbol once and with its count, N leaves and N - 1 internal nodes, both
\* children of every internal node set, and no leaf for a symbol of count 0.
C3_LeafInternalCount ==
  (Built /\ N >= 1) =>
    /\ root # NoneNode
    /\ LeafCount(root) = N
    /\ InternalCount(root) = N - 1
    /\ {heap[n].symbol : n \in {m \in NodesBelow(root) : IsLeaf(m)}}
         = CountedSymbols
    /\ \A n \in NodesBelow(root) :
         IF IsLeaf(n) THEN heap[n].frequency = CountOf(heap[n].symbol)
         ELSE heap[n].left # NoneNode /\ heap[n].right # NoneNode

C3_Witness ==
  /\ Built /\ N = 3 /\ InternalCount(root) = 2
  /\ Len(message) > 3

\* C4: the root's frequency is the sum of the leaf frequencies, which is the
\* length of the message, and every internal node's frequency is the sum of
\* its children's.
C4_FrequencyConservation ==
  (Built /\ N >= 1) =>
    /\ heap[root].frequency = LeafFrequencySum(root)
    /\ heap[root].frequency = SumAt(Counted)
    /\ heap[root].frequency = Len(message)
    /\ \A n \in NodesBelow(root) :
         ~IsLeaf(n) =>
           heap[n].frequency
             = heap[heap[n].left].frequency + heap[heap[n].right].frequency

C4_Witness ==
  /\ Built /\ N = 5 /\ heap[root].frequency = 5 * MaxFreq

\* C10: an iteration of the build loop removes s1, the earliest node of
\* minimum frequency in the forest, then s2, the earliest node of minimum
\* frequency in what is left, and appends one new node with frequency
\* s1.frequency + s2.frequency, left child s1 and right child s2; the forest
\* shrinks by one per iteration and holds one node after N - 1 merges.
IndexOf(list, x) == CHOOSE i \in 1..Len(list) : list[i] = x

MergeStepOK ==
  (pc = "build" /\ Len(forest) > 1 /\ merges' = merges + 1) =>
    LET new == forest'[Len(forest')]
        s1 == heap'[new].left
        s2 == heap'[new].right
    IN  /\ Len(forest') = Len(forest) - 1
        /\ Len(heap') = Len(heap) + 1
        /\ SubSeq(heap', 1, Len(heap)) = heap
        /\ new = Len(heap')
        /\ heap'[new].symbol = None
        /\ s1 \in Elems(forest)
        /\ LET i1 == IndexOf(forest, s1)
               rest1 == Pop(forest, i1)
           IN  /\ s2 \in Elems(rest1)
               /\ \A x \in Elems(rest1) : heap[s1].frequency <= heap[x].frequency
               /\ \A j \in 1..(i1 - 1) :
                    heap[forest[j]].frequency > heap[s1].frequency
               /\ LET i2 == IndexOf(rest1, s2)
                      rest2 == Pop(rest1, i2)
                  IN  /\ \A x \in Elems(rest2) :
                           heap[s2].frequency <= heap[x].frequency
                      /\ \A j \in 1..(i2 - 1) :
                           heap[rest1[j]].frequency > heap[s2].frequency
                      /\ forest' = Append(rest2, new)
        /\ heap'[new].frequency = heap[s1].frequency + heap[s2].frequency

LoopCount ==
  /\ (pc = "build" /\ N >= 1) => Len(forest) + merges = N
  /\ (Built /\ N >= 1) => Len(forest) = 1 /\ merges = N - 1

\* C10: every step of the build loop is a greedy merge as MergeStepOK states
\* it, and the loop ends with one node after N - 1 merges.
C10_GreedyMerge == [][MergeStepOK]_vars /\ []LoopCount

\* A run with four merges in which a tie was broken: two nodes of the forest
\* had the minimum frequency when the last but one merge chose.
C10_Witness ==
  /\ Built /\ merges = 4
  /\ \E a, b \in CountedSymbols : a # b /\ CountOf(a) = CountOf(b)
  /\ \E a, b \in CountedSymbols : CountOf(a) < CountOf(b)

\* ----- the pipeline on a message -----
Encoded == pc \in {"reverse", "decode", "walk", "done"}

\* The concatenation of the table's codes of the symbols of a message.
RECURSIVE CodeConcat(_)
CodeConcat(msg) ==
  IF msg = <<>> THEN <<>> ELSE CodeOf(Head(msg)) \o CodeConcat(Tail(msg))

\* The table decoder ends with pending bits: the input stopped inside a code.
MidCode ==
  decode_with_table_loop(bits, 1, reverse_table, <<>>, <<>>).current_bits # <<>>

\* C1: for a non-empty message the encoder returns a bitstring, and the
\* decoder given that bitstring returns the message.
C1_RoundTrip ==
  message # <<>> =>
    /\ Encoded => encoded.status = "ok"
    /\ (pc = "done" /\ bits = encoded.value) => decoded = Ok(message)

\* Huffman.py's round trip on a message of at least two distinct symbols.
RoundTripTwoSymbols ==
  (impl = "Huffman" /\ N >= 2 /\ pc = "done" /\ bits = encoded.value) =>
    encoded.status = "ok" /\ decoded = Ok(message)

\* C5: a message of one distinct symbol gives a single leaf, the code "0"
\* for its symbol, an encoding of one bit per symbol, and decodes back.
C5_Degenerate ==
  (N = 1 /\ Tabled) =>
    /\ LeafCount(root) = 1 /\ InternalCount(root) = 0
    /\ \A a \in CountedSymbols : HasCode(a) /\ CodeOf(a) = <<"0">>
    /\ Encoded =>
         encoded.status = "ok" /\ Len(encoded.value) = Len(message)
    /\ (pc = "done" /\ bits = encoded.value) => decoded = Ok(message)

C7_InvalidTreeFails ==
  (Tabled /\ root = NoneNode) => table.status = "InvalidTree"

\* C7 amended: on the empty tree build_encoding_table raises nothing and
\* returns a table without codes: the empty dict in Huffman.py, 27 empty
\* strings in Greedy_Alg.py.
C7_EmptyTreeEmptyTable ==
  (Tabled /\ root = NoneNode) =>
    table = Ok(IF impl = "Huffman" THEN <<>>
               ELSE [i \in 1..TABLE_SIZE |-> <<>>])

C7_Witness ==
  /\ Tabled /\ root = NoneNode /\ message = <<>> /\ impl = "Huffman"
  /\ table = Ok(<<>>)

\* C8: on every built tree and every bitstring the tree-walk decoder and
\* the table decoder return the same.
C8_DecoderEquivalence ==
  (pc = "done" /\ impl = "Huffman" /\ root # NoneNode) => walked = decoded

====
